---- MODULE Spec2Model ----
(***************************************************************************)
(* A model of pybloomd.py, the client of the BloomD filter server:         *)
(*   - ConnectionPool (get_connection / make_connection / release),        *)
(*   - BloomdConnection (send / read / send_and_receive, one socket call   *)
(*     per step, the outcome of each call chosen by the environment),      *)
(*   - BloomdClient (_get_pool, list_filters, create_filter, __getitem__,  *)
(*     flush) over several servers.                                        *)
(* Four specifications share the variables: SpecPool, SpecConn, and for   *)
(* the client SpecLookup (lookups) and SpecClient (create, list, flush).   *)
(* Each one holds the other parts at their initial value.                  *)
(***************************************************************************)
EXTENDS Integers, Sequences, FiniteSets, TLC

VARIABLES
    ospid,          \* os.getpid() of the running process
    pool,           \* a ConnectionPool object (SpecPool)
    poolLast,       \* the last pool call: its arguments, result and the pool before it
    conn,           \* a BloomdConnection object: sock, fh, attempts (SpecConn)
    call,           \* the send / send_and_receive call running on conn, and what
                    \* it did so far
    servers,        \* BloomdClient.servers: the configured addresses, in order
    filters,        \* the filters each server holds (the servers' own state)
    client,         \* BloomdClient: server_info, info_time, sever_pools
    now,            \* time.time()
    ticks,          \* how often the clock was advanced
    rlast,          \* the last client call: arguments, what it did, its result
    csock,          \* the connections of `pool` whose sock is not None
    hash_keys,      \* BloomdFilter.hash_keys, handed on to its pipelines
    bits,           \* the filter on the server: the bits that are set
    bufs,           \* BloomdPipeline.buf of each pipeline made (p: 1, q: 2)
    unread,         \* the lines that wait to be read on a connection's file
    flast,          \* the last filter or pipeline call, and its result
    rb              \* the readblock call that runs step by step

poolVars == <<ospid, pool, poolLast>>
connVars == <<conn, call>>
routerVars == <<servers, filters, client, now, ticks, rlast>>
filterVars == <<hash_keys, bits, bufs, unread, flast, rb>>
vars == <<ospid, pool, poolLast, conn, call, servers, filters, client, now, ticks, rlast,
          csock, hash_keys, bits, bufs, unread, flast, rb>>

----------------------------------------------------------------------------
(* Bounds of the model *)

\* largest max_connections a pool is configured with (0 stands for None)
MaxCap == 2
\* most connections the callers of one pool hold at the same time
MaxHeld == 3
\* how often the clock is advanced
MaxTicks == 2
\* most commands appended to the buffer of one pipeline
MaxBuf == 2
\* most lines that wait on a connection when readblock is called
MaxLines == 4

----------------------------------------------------------------------------
(* ConnectionPool *)

\* `max_connections or 2 ** 31`: the cap of a pool built without one.  TLC's
\* integers end at 2 ** 31 - 1, which stands for it here; no pool of the model
\* comes near either number.
Unbounded == 2147483647

Range(s) == {s[i] : i \in DOMAIN s}

\* ConnectionPool.__init__: None and 0 are both falsy, so both give 2 ** 31
PoolNew(pid, cfgMax) ==
    [ pid                   |-> pid,
      max_connections       |-> IF cfgMax = 0 THEN Unbounded ELSE cfgMax,
      created_connections   |-> 0,
      available_connections |-> <<>>,
      in_use_connections    |-> {} ]

\* _checkpid: TRUE when the pool still belongs to the running process.
\* Otherwise _checkpid calls self.disconnect(), whose first statement uses
\* the name `chain`, which the module never imports: a NameError.
CheckPid(p, os) == p.pid = os

MakeConnectionFullOffByOne(p) == p.created_connections > p.max_connections

\* make_connection: `if self._created_connections >= self.max_connections`
MakeConnectionFull(p) == p.created_connections >= p.max_connections

\* get_connection: the pool after the call, the connection returned (0: none)
\* and the exception raised ("": none).  `raise ConnectionError(...)` names a
\* class the module does not define: the exception that leaves is a NameError.
GetConnectionOf(p, os) ==
    IF ~CheckPid(p, os)
    THEN [pool |-> p, conn |-> 0, err |-> "NameError: chain"]
    ELSE IF Len(p.available_connections) > 0
    THEN LET n == Len(p.available_connections)
             c == p.available_connections[n]
         IN  [pool |-> [p EXCEPT !.available_connections = SubSeq(@, 1, n - 1),
                                 !.in_use_connections = @ \cup {c}],
              conn |-> c, err |-> ""]
    ELSE IF MakeConnectionFull(p)
    THEN [pool |-> p, conn |-> 0, err |-> "NameError: ConnectionError"]
    ELSE LET c == p.created_connections + 1
         IN  [pool |-> [p EXCEPT !.created_connections = c,
                                 !.in_use_connections = @ \cup {c}],
              conn |-> c, err |-> ""]

\* release: set.remove raises KeyError for a connection that is not in use.
\* Every connection of the model was made by the running process, so
\* `connection.pid == self.pid` holds whenever _checkpid passed.
ReleaseOf(p, os, c) ==
    IF ~CheckPid(p, os)
    THEN [pool |-> p, err |-> "NameError: chain"]
    ELSE IF c \notin p.in_use_connections
    THEN [pool |-> p, err |-> "KeyError"]
    ELSE [pool |-> [p EXCEPT !.in_use_connections = @ \ {c},
                             !.available_connections = Append(@, c)],
          err |-> ""]

NoCall == [op |-> "none", arg |-> 0, conn |-> 0, err |-> "", prev |-> PoolNew(1, 0)]

PoolStart(cfgMax) ==
    /\ ospid = 1
    /\ pool = PoolNew(1, cfgMax)
    /\ poolLast = [NoCall EXCEPT !.prev = pool]
    /\ csock = {}

GetConnection ==
    /\ Cardinality(pool.in_use_connections) < MaxHeld
    /\ LET r == GetConnectionOf(pool, ospid)
       IN  /\ pool' = r.pool
           /\ poolLast' = [op |-> "get_connection", arg |-> 0, conn |-> r.conn,
                           err |-> r.err, prev |-> pool]
    /\ UNCHANGED <<ospid, connVars, routerVars, csock, filterVars>>

Release ==
    /\ \E c \in 1..pool.created_connections :
         LET r == ReleaseOf(pool, ospid, c)
         IN  /\ pool' = r.pool
             /\ poolLast' = [op |-> "release", arg |-> c, conn |-> 0,
                             err |-> r.err, prev |-> pool]
    /\ UNCHANGED <<ospid, connVars, routerVars, csock, filterVars>>

\* the connections a pool knows: the idle ones and the ones in use
Known(p) == Range(p.available_connections) \cup p.in_use_connections

\* ConnectionPool.disconnect: the first statement calls `chain`, a name the
\* module never imports nor defines, so the call raises NameError before
\* any connection.disconnect(); no socket is closed
DisconnectOf(p, open) == [open |-> open, err |-> "NameError: chain"]

\* the holder of a connection uses it: _create_socket gives it a socket
ConnUse ==
    /\ \E c \in pool.in_use_connections \ csock : csock' = csock \cup {c}
    /\ UNCHANGED <<ospid, pool, poolLast, connVars, routerVars, filterVars>>

\* os.fork(): the model goes on in the child, which has the pool, its
\* connections and their sockets
Fork ==
    /\ ospid = pool.pid
    /\ ospid' = ospid + 1
    /\ poolLast' = [NoCall EXCEPT !.op = "fork", !.prev = pool]
    /\ UNCHANGED <<pool, csock, connVars, routerVars, filterVars>>

\* a caller calls pool.disconnect()
PoolDisconnect ==
    /\ \E r \in {DisconnectOf(pool, csock)} :
         /\ csock' = r.open
         /\ poolLast' = [op |-> "disconnect", arg |-> 0, conn |-> 0,
                         err |-> r.err, prev |-> pool]
    /\ UNCHANGED <<ospid, pool, connVars, routerVars, filterVars>>

----------------------------------------------------------------------------
(* BloomdConnection: send, read, send_and_receive.  Every socket call
   (connect, sendall, readline) is one step; the environment chooses whether
   it succeeds or with which errno it raises socket.error. *)

\* `attempts=3` of BloomdConnection.__init__
DefaultAttempts == 3

\* the errno values send and send_and_receive retry on
TransientErrnos == {"ECONNRESET", "ECONNREFUSED", "EAGAIN", "EHOSTUNREACH", "EPIPE"}
\* two of the errno values a socket call raises that are not in that list
OtherErrnos == {"ETIMEDOUT", "ENOTCONN"}
Errnos == TransientErrnos \cup OtherErrnos

SendTransientAny(e) == TRUE

\* send: `if e[0] in (errno.ECONNRESET, ..., errno.EPIPE)`
SendTransient(e) == e \in TransientErrnos

\* send_and_receive: the same test
SarTransient(e) == e \in TransientErrnos

\* BloomdConnection.__init__: no socket, no file
ConnNew(attempts) == [sock |-> "None", fh |-> "None", attempts |-> attempts]

\* sock is "None", "open" (connected, no call raised on it) or "failed" (a
\* sendall or readline on it raised).  fh is "None" or "file".
\* The frame of a call: op, pc, the loop counters `attempt` (send) and `outer`
\* (send_and_receive), and what the call did: the sendall calls made (writes),
\* those that raised one of the errnos of TransientErrnos (twrites), the
\* connects, the readlines, the last socket call and the errno it raised.
NoFrame ==
    [ op |-> "none", pc |-> "idle", attempt |-> 0, outer |-> 0,
      writes |-> 0, twrites |-> 0, connects |-> 0, reads |-> 0,
      lastCall |-> "none", lastErr |-> "", res |-> "none", errno |-> "" ]

ConnStart(attempts) ==
    /\ conn = ConnNew(attempts)
    /\ call = NoFrame

Idle == call.pc \in {"idle", "done"}

\* the frame after the running call returns `value`
Return(f, value) == [f EXCEPT !.pc = "done", !.res = value]

\* the frame after an exception leaves the running call
Propagate(f, kind, e) == [f EXCEPT !.pc = "done", !.res = kind, !.errno = e]

\* the frame after `kind` is raised inside the try block of send_and_receive
\* (lines 113-121) or, in a plain send, to the caller.  socket.error is the
\* only class the except clause catches; EnvironmentError passes through.
Raise(f, kind, e) ==
    IF f.op = "send_and_receive" /\ kind = "socket.error"
    THEN IF SarTransient(e)
         THEN [f EXCEPT !.pc = "sar_reconnect"]
         ELSE Propagate(f, kind, e)
    ELSE Propagate(f, kind, e)

\* the head of send's `for attempt in xrange(self.attempts)` with `attempt`
\* writes behind it: another sendall, or the loop is over and nothing was sent
SendLoop(f, attempts, attempt) ==
    IF attempt < attempts
    THEN [f EXCEPT !.pc = "send_write", !.attempt = attempt]
    ELSE Raise(f, "EnvironmentError", "")

\* entering send (lines 60-63)
SendEnter(f, c) ==
    IF c.sock = "None"
    THEN [f EXCEPT !.pc = "send_connect", !.attempt = 0]
    ELSE SendLoop(f, c.attempts, 0)

\* the head of send_and_receive's loop with `outer` iterations behind it
SarLoop(f, c, outer) ==
    IF outer < c.attempts
    THEN SendEnter([f EXCEPT !.outer = outer], c)
    ELSE Propagate(f, "EnvironmentError", "")

Frame(op) == [NoFrame EXCEPT !.op = op]

\* a caller calls conn.send(cmd)
Send ==
    /\ Idle
    /\ call' = SendEnter(Frame("send"), conn)
    /\ UNCHANGED <<conn, poolVars, routerVars, csock, filterVars>>

\* a caller calls conn.send_and_receive(cmd)
SendAndReceive ==
    /\ Idle
    /\ call' = SarLoop(Frame("send_and_receive"), conn, 0)
    /\ UNCHANGED <<conn, poolVars, routerVars, csock, filterVars>>

\* _create_socket succeeded: the new socket, and `self.fh = None`
Connected(c) == [c EXCEPT !.sock = "open", !.fh = "None"]

Did(f, what, e) ==
    [f EXCEPT !.lastCall = what, !.lastErr = e,
              !.writes = IF what = "write" THEN @ + 1 ELSE @,
              !.twrites = IF what = "write" /\ e \in TransientErrnos THEN @ + 1 ELSE @,
              !.connects = IF what = "connect" THEN @ + 1 ELSE @,
              !.reads = IF what = "read" THEN @ + 1 ELSE @]

\* line 61: `self.sock = self._create_socket()` with no socket yet
SendCreateSocket ==
    /\ call.pc = "send_connect"
    /\ \E r \in {"ok"} \cup Errnos :
         IF r = "ok"
         THEN /\ conn' = Connected(conn)
              /\ call' = SendLoop(Did(call, "connect", ""), conn.attempts, 0)
         ELSE /\ conn' = conn
              /\ call' = Raise(Did(call, "connect", r), "socket.error", r)
    /\ UNCHANGED <<poolVars, routerVars, csock, filterVars>>

\* line 65: `self.sock.sendall(cmd + "\n")`
SendAll ==
    /\ call.pc = "send_write"
    /\ \E r \in {"ok"} \cup Errnos :
         LET f == Did(call, "write", IF r = "ok" THEN "" ELSE r)
         IN  IF r = "ok"
             THEN /\ conn' = conn
                  /\ call' = IF f.op = "send"
                             THEN Return(f, "sent")
                             ELSE [f EXCEPT !.pc = "sar_read"]
             ELSE /\ conn' = [conn EXCEPT !.sock = "failed"]
                  /\ call' = IF SendTransient(r)
                             THEN [f EXCEPT !.pc = "send_reconnect"]
                             ELSE Raise(f, "socket.error", r)
    /\ UNCHANGED <<poolVars, routerVars, csock, filterVars>>

\* line 71: `self.sock = self._create_socket()` in send's except clause
SendReconnect ==
    /\ call.pc = "send_reconnect"
    /\ \E r \in {"ok"} \cup Errnos :
         IF r = "ok"
         THEN /\ conn' = Connected(conn)
              /\ call' = SendLoop(Did(call, "connect", ""), conn.attempts,
                                  call.attempt + 1)
         ELSE /\ conn' = conn
              /\ call' = Raise(Did(call, "connect", r), "socket.error", r)
    /\ UNCHANGED <<poolVars, routerVars, csock, filterVars>>

\* line 115: `return self.read()`; read makes the file when there is none
ReadLine ==
    /\ call.pc = "sar_read"
    /\ \E r \in {"ok"} \cup Errnos :
         LET f == Did(call, "read", IF r = "ok" THEN "" ELSE r)
         IN  IF r = "ok"
             THEN /\ conn' = [conn EXCEPT !.fh = "file"]
                  /\ call' = Return(f, "line")
             ELSE /\ conn' = [conn EXCEPT !.fh = "file", !.sock = "failed"]
                  /\ call' = Raise(f, "socket.error", r)
    /\ UNCHANGED <<poolVars, routerVars, csock, filterVars>>

\* line 119: `self.sock = self._create_socket()` in send_and_receive's except
\* clause; an exception raised here leaves send_and_receive
SarReconnect ==
    /\ call.pc = "sar_reconnect"
    /\ \E r \in {"ok"} \cup Errnos :
         IF r = "ok"
         THEN /\ conn' = Connected(conn)
              /\ call' = SarLoop(Did(call, "connect", ""), Connected(conn),
                                 call.outer + 1)
         ELSE /\ conn' = conn
              /\ call' = Propagate(Did(call, "connect", r), "socket.error", r)
    /\ UNCHANGED <<poolVars, routerVars, csock, filterVars>>

\* BloomdConnection.disconnect
Disconnect ==
    /\ Idle
    /\ conn.sock # "None"
    /\ conn' = [conn EXCEPT !.sock = "None"]
    /\ call' = [NoFrame EXCEPT !.op = "disconnect", !.pc = "done"]
    /\ UNCHANGED <<poolVars, routerVars, csock, filterVars>>

----------------------------------------------------------------------------
(* BloomdClient.  A server address is a number, ordered as the address
   strings are; 0 stands for None.  A call of the client is one step: the
   servers answer every command, `list` with a well-formed block of their
   filters. *)

\* the filter names and the addresses of the servers that exist
Names == {"a", "b"}
Addrs == {1, 2}

\* the seconds after which _get_pool reloads server_info
StaleWindow == 300

\* _server_pool: the pool of `server`, built on first use with no cap
ServerPool(pools, server) ==
    IF server \in DOMAIN pools THEN pools[server] ELSE PoolNew(ospid, 0)

WithPool(pools, server, p) ==
    [a \in DOMAIN pools \cup {server} |-> IF a = server THEN p ELSE pools[a]]

Min(S) == CHOOSE x \in S : \A y \in S : x <= y
Max(S) == CHOOSE x \in S : \A y \in S : x >= y

\* pool.get_connection() on the pool of server a
TakeFrom(pools, a) == GetConnectionOf(ServerPool(pools, a), ospid)

\* the first server of the list whose get_connection raises (Len + 1: none)
FirstFailure(pools, servs) ==
    Min({i \in DOMAIN servs : TakeFrom(pools, servs[i]).err # ""} \cup {Len(servs) + 1})

\* lines 349-352 of list_filters and 374-377 of flush, with k the first server
\* whose get_connection raises: one connection is taken from the pool of
\* each server before it, in the order of self.servers (the servers of a list
\* are distinct, so each pool is asked once); the exception ends the call and
\* the connections taken before it stay in use
AcquireUpTo(pools, servs, k) ==
    [ pools |-> [a \in DOMAIN pools \cup {servs[i] : i \in 1..Min({k, Len(servs)})} |->
                   IF \E i \in 1..Min({k, Len(servs)}) : servs[i] = a
                   THEN TakeFrom(pools, a).pool
                   ELSE pools[a]],
      conns |-> [i \in 1..(k - 1) |-> TakeFrom(pools, servs[i]).conn],
      err |-> IF k <= Len(servs) THEN TakeFrom(pools, servs[k]).err ELSE "" ]

AcquireAll(pools, servs) == AcquireUpTo(pools, servs, FirstFailure(pools, servs))

\* conn.release() of connection c, taken from the pool of `server`
ReleaseTo(pools, server, c) ==
    WithPool(pools, server, ReleaseOf(ServerPool(pools, server), ospid, c).pool)

\* conn.release() of conns[i], for the servers i of `which`
ReleaseAll(pools, servs, conns, which) ==
    [a \in DOMAIN pools |->
       IF \E i \in which : servs[i] = a
       THEN ReleaseOf(pools[a], ospid, conns[CHOOSE i \in which : servs[i] = a]).pool
       ELSE pools[a]]

\* line 366: `responses[name] = server, info` names the variable of the loop
\* of lines 350-352, which that loop left at the last configured server
LoopServer(servs, i) == servs[Len(servs)]

\* lines 359-368 of list_filters: the block of each server is read in the
\* order of the connections and its names entered; an entry made for a later
\* connection replaces the one made for an earlier connection
Responses(servs) ==
    [n \in UNION {filters[servs[i]] : i \in DOMAIN servs} |->
       LoopServer(servs, Max({i \in DOMAIN servs : n \in filters[servs[i]]}))]

\* lines 354-370 once the connections are taken: all blocks read, all
\* connections released
ListFiltersWith(got, servs) ==
    IF got.err # ""
    THEN [responses |-> << >>, pools |-> got.pools, err |-> got.err]
    ELSE [responses |-> Responses(servs),
          pools |-> ReleaseAll(got.pools, servs, got.conns, DOMAIN servs),
          err |-> ""]

\* list_filters(inc_server=True): name -> server, and the pools afterwards
ListFiltersOf(pools, servs) == ListFiltersWith(AcquireAll(pools, servs), servs)

\* line 253: `if not self.server_info or time.time() - self.info_time > 300`
\* (None and the empty dictionary are both falsy)
ForceCheck(c, t) ==
    DOMAIN c.server_info = {} \/ t - c.info_time > StaleWindow

\* lines 254-255 and 263-264 with l the result of list_filters
Loaded(c, l, t) ==
    [c EXCEPT !.server_info = l.responses, !.info_time = t, !.sever_pools = l.pools]

\* lines 254-255 and 263-264: reload server_info, stamp it with the time
Reload(c, servs, t) == Loaded(c, ListFiltersOf(c.sever_pools, servs), t)

LeastUsedFirstListed(servs, info) == servs[1]

\* lines 282-292: count the filters server_info gives each configured server,
\* sort the (count, server) pairs, take the server of the first pair
LeastUsed(servs, info) ==
    LET counts == [s \in Range(servs) |->
                     Cardinality({n \in DOMAIN info : info[n] = s})]
        Before(s, t) == counts[s] < counts[t] \/ (counts[s] = counts[t] /\ s <= t)
    IN  CHOOSE s \in Range(servs) : \A t \in Range(servs) : Before(s, t)

NotFoundNeverStrict(strict, explicit_server, servs, info) ==
    IF explicit_server # 0
    THEN [kind |-> "pool", server |-> explicit_server]
    ELSE [kind |-> "pool", server |-> LeastUsed(servs, info)]

\* lines 271-293: the filter is in no server's list
NotFound(strict, explicit_server, servs, info) ==
    IF strict
    THEN [kind |-> "BloomdError: Filter does not exist!", server |-> 0]
    ELSE IF explicit_server # 0
    THEN [kind |-> "pool", server |-> explicit_server]
    ELSE [kind |-> "pool", server |-> LeastUsed(servs, info)]

\* `return self._server_pool(serv)`: the pool is built if it is not there
Pooled(c, server) ==
    [c EXCEPT !.sever_pools = WithPool(@, server, ServerPool(@, server))]

\* lines 258-260 and 267-269: the name is in server_info
Hit(c, n, filter) ==
    [client |-> Pooled(c, c.server_info[filter]), refreshes |-> n, found |-> TRUE,
     kind |-> "pool", server |-> c.server_info[filter]]

\* lines 271-293 with r the choice made for a name that is not there
Miss(c, n, r) ==
    [client |-> IF r.kind = "pool" THEN Pooled(c, r.server) ELSE c,
     refreshes |-> n, found |-> FALSE, kind |-> r.kind, server |-> r.server]

\* lines 266-293: c is the client after the second reload
Recheck(c, n, servs, filter, strict, explicit_server) ==
    IF filter \in DOMAIN c.server_info
    THEN Hit(c, n, filter)
    ELSE Miss(c, n, NotFound(strict, explicit_server, servs, c.server_info))

\* lines 257-293: c is the client after the check of line 253, n the reloads
\* made by it
Check(c, n, servs, t, filter, strict, explicit_server) ==
    IF filter \in DOMAIN c.server_info
    THEN Hit(c, n, filter)
    ELSE Recheck(Reload(c, servs, t), n + 1, servs, filter, strict, explicit_server)

\* _get_pool: the client afterwards, the list fan-outs made, whether the
\* name was found in server_info, and the pool returned or the error raised
GetPoolOf(c, servs, t, filter, strict, explicit_server) ==
    IF ForceCheck(c, t)
    THEN Check(Reload(c, servs, t), 1, servs, t, filter, strict, explicit_server)
    ELSE Check(c, 0, servs, t, filter, strict, explicit_server)

\* BloomdClient.__init__
ClientNew == [server_info |-> << >>, info_time |-> 0, sever_pools |-> << >>]

NoOp ==
    [ op |-> "none", filter |-> "", strict |-> FALSE, explicit |-> 0,
      aged |-> FALSE, hadEntry |-> FALSE, refreshes |-> 0, found |-> FALSE,
      capacity |-> "None", prob |-> "None", acquired |-> FALSE,
      kind |-> "none", server |-> 0, placed |-> 0, resp |-> "", sentTo |-> <<>>,
      clauses |-> {}, responses |-> <<>>, read |-> <<>> ]

\* what rlast keeps of the state a lookup of `filter` starts in: aged, when
\* server_info was loaded and the load is older than the window
Start(op, filter, strict, explicit_server) ==
    [NoOp EXCEPT !.op = op, !.filter = filter, !.strict = strict,
                 !.explicit = explicit_server,
                 !.aged = /\ client.info_time > 0
                          /\ now - client.info_time > StaleWindow,
                 !.hadEntry = filter \in DOMAIN client.server_info]

\* what rlast keeps of the arguments of another call
Called(op, name, explicit_server) ==
    [NoOp EXCEPT !.op = op, !.filter = name, !.explicit = explicit_server]

RouterStart(servs) ==
    /\ servers = servs
    /\ filters = [a \in Addrs |-> {}]
    /\ client = ClientNew
    /\ now = StaleWindow + 1
    /\ ticks = 0
    /\ rlast = NoOp

\* the server lists a client is built with: one server (the other one exists
\* and is not configured), or both in either order
ServerLists == {<<1>>, <<1, 2>>, <<2, 1>>}

\* a caller calls _get_pool(filter, strict, explicit_server)
GetPool ==
    /\ \E filter \in Names, strict \in BOOLEAN, explicit_server \in {0} \cup Addrs :
         \E r \in {GetPoolOf(client, servers, now, filter, strict, explicit_server)} :
             /\ client' = r.client
             /\ rlast' = [Start("_get_pool", filter, strict, explicit_server) EXCEPT
                            !.refreshes = r.refreshes, !.found = r.found,
                            !.kind = r.kind, !.server = r.server,
                            !.acquired = r.refreshes > 0]
    /\ UNCHANGED <<servers, filters, now, ticks, poolVars, connVars, csock, filterVars>>

\* __getitem__: the strict lookup, and a BloomdFilter on the pool it returns
GetItemOf(c, servs, t, name) ==
    [GetPoolOf(c, servs, t, name, TRUE, 0) EXCEPT
       !.kind = IF @ = "pool" THEN "filter" ELSE @]

\* a caller evaluates client[name]
GetItem ==
    /\ \E name \in Names :
         \E r \in {GetItemOf(client, servers, now, name)} :
             /\ client' = r.client
             /\ rlast' = [Start("__getitem__", name, TRUE, 0) EXCEPT
                            !.refreshes = r.refreshes, !.found = r.found,
                            !.kind = r.kind, !.server = r.server,
                            !.acquired = r.refreshes > 0]
    /\ UNCHANGED <<servers, filters, now, ticks, poolVars, connVars, csock, filterVars>>

\* a caller calls list_filters(): the names, and nothing kept of them
ListFilters ==
    /\ \E l \in {ListFiltersOf(client.sever_pools, servers)} :
         /\ client' = [client EXCEPT !.sever_pools = l.pools]
         /\ rlast' = [NoOp EXCEPT !.op = "list_filters", !.kind = "names",
                                  !.acquired = TRUE,
                                  !.sentTo = servers, !.read = servers]
    /\ UNCHANGED <<servers, filters, now, ticks, poolVars, connVars, csock, filterVars>>

\* the capacity and prob arguments a caller passes: left at the default None,
\* zero, or a value that is not zero
Capacities == {"None", "0", "1000"}
Probs == {"None", "0.0", "0.01"}

\* the truth value Python gives an argument in `if prob`, `if capacity`
\* (lines 311, 318, 320): None and zero are false
Truthy(x) == x \notin {"None", "0", "0.0"}

\* line 311: `if prob and not capacity`
BadArguments(capacity, prob) == Truthy(prob) /\ ~Truthy(capacity)

\* lines 317-324: the clauses of the command after `create name`
Clauses(capacity, prob) ==
    {k \in {"capacity"} : Truthy(capacity)} \cup {k \in {"prob"} : Truthy(prob)}

\* what the server at `server` answers to `create name`
CreateAnswers(server, name) ==
    IF name \in filters[server]
    THEN {"Exists"}
    ELSE {"Done", "Client Error: Bad arguments"}

\* lines 316-326: a connection of the chosen pool, the command, the answer,
\* the connection back in the pool
UsedOnce(c, server) ==
    [c EXCEPT !.sever_pools =
       ReleaseTo(WithPool(@, server, TakeFrom(@, server).pool), server,
                 TakeFrom(@, server).conn)]

CreateResultKeepsPool(c, servs, t, name, placed, resp) ==
    IF resp \in {"Done", "Exists"}
    THEN [client |-> c, refreshes |-> 0, kind |-> "filter", server |-> placed]
    ELSE [client |-> c, refreshes |-> 0, kind |-> "BloomdError: Got response",
          server |-> 0]

\* lines 328-333: what create_filter makes of the answer
CreateResult(c, servs, t, name, placed, resp) ==
    IF resp = "Done"
    THEN [client |-> c, refreshes |-> 0, kind |-> "filter", server |-> placed]
    ELSE IF resp = "Exists"
    THEN GetItemOf(c, servs, t, name)
    ELSE [client |-> c, refreshes |-> 0, kind |-> "BloomdError: Got response",
          server |-> 0]

\* lines 314-333 with p the result of the lookup of line 314
Created(p, name, explicit_server, capacity, prob, resp) ==
    \E r \in {CreateResult(UsedOnce(p.client, p.server), servers, now, name,
                           p.server, resp)} :
        /\ client' = r.client
        /\ filters' = IF resp = "Done"
                      THEN [filters EXCEPT ![p.server] = @ \cup {name}]
                      ELSE filters
        /\ rlast' = [Called("create_filter", name, explicit_server) EXCEPT
                       !.capacity = capacity, !.prob = prob, !.acquired = TRUE,
                       !.placed = p.server, !.resp = resp,
                       !.sentTo = <<p.server>>, !.read = <<p.server>>,
                       !.clauses = Clauses(capacity, prob),
                       !.kind = r.kind, !.server = r.server]

\* a caller calls create_filter(name, capacity, prob, in_memory, server);
\* in_memory only adds a clause to the command
CreateFilter ==
    /\ \E name \in Names, capacity \in Capacities, prob \in Probs,
          explicit_server \in {0} \cup Addrs :
         IF BadArguments(capacity, prob)
         THEN /\ rlast' = [Called("create_filter", name, explicit_server) EXCEPT
                             !.capacity = capacity, !.prob = prob,
                             !.kind = "ValueError"]
              /\ UNCHANGED <<client, filters>>
         ELSE \E p \in {GetPoolOf(client, servers, now, name, FALSE, explicit_server)} :
                \E resp \in CreateAnswers(p.server, name) :
                   Created(p, name, explicit_server, capacity, prob, resp)
    /\ UNCHANGED <<servers, now, ticks, poolVars, connVars, csock, filterVars>>

\* what a server answers to `flush`
FlushAnswers == {"Done", "Internal Error"}

\* lines 385-387: the loop reads and releases every connection; nothing in
\* it leaves the loop early
FlushDrained(servs, resps) == DOMAIN servs

FlushErrorLast(servs, resps) ==
    Max({i \in DOMAIN servs : resps[i] # "Done"} \cup {0})

\* lines 389-392: the error is made for the first answer that is not "Done"
\* and kept (0: every server answered "Done")
FlushError(servs, resps) ==
    Min({i \in DOMAIN servs : resps[i] # "Done"} \cup {Len(servs) + 1}) % (Len(servs) + 1)

\* lines 379-395 with the connections taken, d the connections read and
\* released and e the server the error is made for
Flushed(got, resps, d, e) ==
    /\ client' = [client EXCEPT
                    !.sever_pools = ReleaseAll(got.pools, servers, got.conns, d)]
    /\ rlast' = [NoOp EXCEPT
                   !.op = "flush", !.acquired = Len(got.conns) > 0,
                   !.sentTo = servers, !.responses = resps,
                   !.read = [i \in d |-> servers[i]],
                   !.kind = IF e = 0 THEN "None" ELSE "BloomdError: Got response",
                   !.server = IF e = 0 THEN 0 ELSE servers[e],
                   !.resp = IF e = 0 THEN "" ELSE resps[e]]

\* a caller calls flush()
Flush ==
    /\ \E resps \in [DOMAIN servers -> FlushAnswers] :
         \E got \in {AcquireAll(client.sever_pools, servers)} :
            Flushed(got, resps, FlushDrained(servers, resps), FlushError(servers, resps))
    /\ UNCHANGED <<servers, filters, now, ticks, poolVars, connVars, csock, filterVars>>

\* the connections taken are within the bound of the model
WithinHeld(pools) ==
    \A a \in DOMAIN pools : Cardinality(pools[a].in_use_connections) <= MaxHeld

\* lines 359-362 when the server of position k answers `list` with a first
\* line that is not the start marker: the blocks of the servers before it
\* were read and their connections released; readblock raises BloomdError
\* at line 361, before the release of line 362, and list_filters has no
\* handler that releases
ListFiltersRefusedWith(got, servs, k) ==
    [responses |-> << >>,
     pools |-> ReleaseAll(got.pools, servs, got.conns, 1..(k - 1)),
     err |-> "BloomdError: Did not get block start"]

\* a caller calls list_filters() and one server does not answer with a block
ListFiltersRefused ==
    /\ \E k \in DOMAIN servers :
         \E got \in {AcquireAll(client.sever_pools, servers)} :
            /\ got.err = ""
            /\ WithinHeld(got.pools)
            /\ \E l \in {ListFiltersRefusedWith(got, servers, k)} :
                 /\ client' = [client EXCEPT !.sever_pools = l.pools]
                 /\ rlast' = [NoOp EXCEPT !.op = "list_filters", !.kind = l.err,
                                          !.acquired = TRUE, !.sentTo = servers,
                                          !.read = SubSeq(servers, 1, k),
                                          !.server = servers[k]]
    /\ UNCHANGED <<servers, filters, now, ticks, poolVars, connVars, csock, filterVars>>

\* what send raises: a socket.error that is not transient (line 73), or
\* EnvironmentError after the attempts (line 77)
SendErrors == {"socket.error", "EnvironmentError"}

\* lines 380-381 when send raises on the connection of position k: flush
\* ends there, before the loop of lines 385-387 that reads and releases
FlushUnsentWith(got, servs, k, e) ==
    [pools |-> got.pools, sentTo |-> SubSeq(servs, 1, k - 1), err |-> e]

\* a caller calls flush() and one send fails
FlushUnsent ==
    /\ \E k \in DOMAIN servers, e \in SendErrors :
         \E got \in {AcquireAll(client.sever_pools, servers)} :
            /\ got.err = ""
            /\ WithinHeld(got.pools)
            /\ \E l \in {FlushUnsentWith(got, servers, k, e)} :
                 /\ client' = [client EXCEPT !.sever_pools = l.pools]
                 /\ rlast' = [NoOp EXCEPT !.op = "flush", !.kind = l.err,
                                          !.acquired = TRUE, !.sentTo = l.sentTo,
                                          !.server = servers[k]]
    /\ UNCHANGED <<servers, filters, now, ticks, poolVars, connVars, csock, filterVars>>

\* the clock advances
Tick ==
    /\ ticks < MaxTicks
    /\ \E d \in {StaleWindow, StaleWindow + 1} : now' = now + d
    /\ ticks' = ticks + 1
    /\ rlast' = NoOp
    /\ UNCHANGED <<servers, filters, client, poolVars, connVars, csock, filterVars>>

\* a filter is created on a server by some other client
ServerCreate ==
    /\ \E a \in Addrs, n \in Names :
         /\ n \notin filters[a]
         /\ filters' = [filters EXCEPT ![a] = @ \cup {n}]
    /\ rlast' = NoOp
    /\ UNCHANGED <<servers, client, now, ticks, poolVars, connVars, csock, filterVars>>

\* a filter is dropped from a server (BloomdFilter.drop, by any client)
ServerDrop ==
    /\ \E a \in Addrs :
         \E n \in filters[a] : filters' = [filters EXCEPT ![a] = @ \ {n}]
    /\ rlast' = NoOp
    /\ UNCHANGED <<servers, client, now, ticks, poolVars, connVars, csock, filterVars>>

----------------------------------------------------------------------------
(* The lines of the protocol.  A line is the sequence of the words that
   str.split(" ") gives; a key is the sequence of its words too, so that a
   key with a space in it is a key of two words. *)

StartMarker == <<"START">>
EndMarker == <<"END">>

\* readblock's loop (lines 99-103): the lines stream[2..i-1] are read and
\* kept; socket.timeout when the server sends no more lines
RECURSIVE ReadUntilEnd(_, _)
ReadUntilEnd(stream, i) ==
    IF i > Len(stream)
    THEN [err |-> "socket.timeout", lines |-> SubSeq(stream, 2, Len(stream)),
          rest |-> <<>>]
    ELSE IF stream[i] = EndMarker
    THEN [err |-> "", lines |-> SubSeq(stream, 2, i - 1),
          rest |-> SubSeq(stream, i + 1, Len(stream))]
    ELSE ReadUntilEnd(stream, i + 1)

ReadBlockKeepsFirst(stream) ==
    IF stream = <<>>
    THEN [err |-> "socket.timeout", lines |-> <<>>, rest |-> <<>>]
    ELSE IF stream[1] # StartMarker
    THEN [err |-> "BloomdError: Did not get block start", lines |-> <<>>,
          rest |-> stream]
    ELSE ReadUntilEnd(stream, 2)

\* readblock(): the lines of the block or the exception, and the lines that
\* still wait on the connection
ReadBlockOf(stream) ==
    IF stream = <<>>
    THEN [err |-> "socket.timeout", lines |-> <<>>, rest |-> <<>>]
    ELSE IF stream[1] # StartMarker
    THEN [err |-> "BloomdError: Did not get block start", lines |-> <<>>,
          rest |-> Tail(stream)]
    ELSE ReadUntilEnd(stream, 2)

\* dict(tuple(l.split(" ", 1)) for l in resp_lines): a line of one word gives
\* a tuple of one element, which dict() refuses with ValueError; of two
\* lines with the same key the later one stays
DictOf(lines) ==
    [k \in {lines[i][1] : i \in DOMAIN lines} |->
       Tail(lines[CHOOSE i \in DOMAIN lines :
                    /\ lines[i][1] = k
                    /\ \A j \in DOMAIN lines : lines[j][1] = k => j <= i])]

\* response_block_to_dict
ResponseBlockToDict(stream) ==
    LET b == ReadBlockOf(stream)
    IN  IF b.err # ""
        THEN [err |-> b.err, dict |-> <<>>, rest |-> b.rest]
        ELSE IF \E i \in DOMAIN b.lines : Len(b.lines[i]) < 2
        THEN [err |-> "ValueError", dict |-> <<>>, rest |-> b.rest]
        ELSE [err |-> "", dict |-> DictOf(b.lines), rest |-> b.rest]

\* the lines readblock meets in the model
BlockLines == {StartMarker, EndMarker, <<"size", "1">>, <<"junk">>}

RECURSIVE Streams(_)
Streams(n) ==
    IF n = 0 THEN {<<>>}
    ELSE Streams(n - 1) \cup
         {Append(t, l) : t \in {u \in Streams(n - 1) : Len(u) = n - 1}, l \in BlockLines}

NoFilterOp ==
    [ op |-> "none", pipe |-> 0, other |-> 0, returned |-> 0,
      key |-> <<>>, keys |-> <<>>,
      cmd |-> <<>>, buf |-> <<>>, bufs |-> <<>>, sent |-> <<>>, bits |-> {},
      acquired |-> FALSE, honest |-> TRUE, lost |-> 0, responses |-> <<>>,
      results |-> <<>>, raised |-> "", stream |-> <<>>, lines |-> <<>> ]

----------------------------------------------------------------------------
(* The filter on the server.  It is a Bloom filter of two bits: a key is in
   it when all the bits of the key are set, so a key that was never added
   can be in it. *)

Keys == {<<"k1">>, <<"k2">>}

\* the lists of keys bulk and multi are called with; the last one holds one
\* key, "k1 k2"
KeyLists == {<< <<"k1">>, <<"k2">> >>, << <<"k2">> >>, << <<"k1", "k2">> >>}

\* hashlib.sha1(key).hexdigest(): one word, another one for another key
Sha1(key) ==
    IF key = <<"k1">> THEN "d1" ELSE IF key = <<"k2">> THEN "d2" ELSE "d3"

\* _get_key
GetKey(h, key) == IF h THEN <<Sha1(key)>> ELSE key

\* " ".join([self._get_key(k) for k in keys])
RECURSIVE Join(_, _)
Join(h, keys) ==
    IF keys = <<>> THEN <<>> ELSE GetKey(h, Head(keys)) \o Join(h, Tail(keys))

\* self.name
FilterName == "f"

\* the bits the server sets for a word
BitsOf(w) ==
    IF w \in {"k1", "d3"} THEN {1} ELSE IF w \in {"k2", "d1"} THEN {1, 2} ELSE {2}

Member(b, w) == BitsOf(w) \subseteq b

\* the words of a command line after the verb and the filter name
WordsOf(cmd) == SubSeq(cmd, 3, Len(cmd))

\* the bits once the server has set the first i words
After(b, words, i) == b \cup UNION {BitsOf(words[j]) : j \in 1..i}

\* the filter after the server handled the command: s and b set keys, drop
\* and clear leave no key
ServerBits(b, cmd) ==
    IF cmd[1] \in {"s", "b"} THEN After(b, WordsOf(cmd), Len(WordsOf(cmd)))
    ELSE IF cmd[1] \in {"drop", "clear"} THEN {}
    ELSE b

YesNo(t) == IF t THEN "Yes" ELSE "No"

SizeWord(b) == IF b = {} THEN "0" ELSE IF b = {1, 2} THEN "2" ELSE "1"

\* the lines the server answers the command with
ServerAnswer(b, cmd) ==
    IF cmd[1] \in {"s", "b"}
    THEN << [i \in DOMAIN WordsOf(cmd) |->
               YesNo(~Member(After(b, WordsOf(cmd), i - 1), WordsOf(cmd)[i]))] >>
    ELSE IF cmd[1] \in {"c", "m"}
    THEN << [i \in DOMAIN WordsOf(cmd) |-> YesNo(Member(b, WordsOf(cmd)[i]))] >>
    ELSE IF cmd[1] = "info"
    THEN <<StartMarker, <<"capacity", "1000">>, <<"size", SizeWord(b)>>, EndMarker>>
    ELSE << <<"Done">> >>

\* the other answers a server gives: an error line, one word where several
\* are due, a block with a line of one word
QuirkAnswer(quirk) ==
    IF quirk = "error" THEN << <<"Filter", "does", "not", "exist">> >>
    ELSE IF quirk = "short" THEN << <<"Yes">> >>
    ELSE <<StartMarker, <<"junk">>, EndMarker>>

QuirksFor(verb) ==
    IF verb \in {"b", "m"} THEN {"error", "short"}
    ELSE IF verb = "info" THEN {"error", "junk"}
    ELSE {"error"}

Answer(b, cmd, quirk) ==
    IF quirk = "none" THEN ServerAnswer(b, cmd) ELSE QuirkAnswer(quirk)

BitsAfter(b, cmd, quirk) ==
    IF quirk = "none" THEN ServerBits(b, cmd) ELSE b

----------------------------------------------------------------------------
(* The values the calls return.  kind is "bool", "list", "dict", "None" or
   "BloomdError"; val holds the booleans, line the response of an error. *)

Bool(v) == [kind |-> "bool", val |-> <<v>>, line |-> <<>>, dict |-> <<>>]
List(vs) == [kind |-> "list", val |-> vs, line |-> <<>>, dict |-> <<>>]
Dict(d) == [kind |-> "dict", val |-> <<>>, line |-> <<>>, dict |-> d]
None == [kind |-> "None", val |-> <<>>, line |-> <<>>, dict |-> <<>>]
True == [kind |-> "True", val |-> <<>>, line |-> <<>>, dict |-> <<>>]
Error(line) == [kind |-> "BloomdError", val |-> <<>>, line |-> line, dict |-> <<>>]

\* resp.startswith("Yes") or resp.startswith("No"): the first word of every
\* line of the model is all of "Yes" or "No", or starts with neither
StartsYesNo(resp) == resp[1] \in {"Yes", "No"}

\* [r == "Yes" for r in resp.split(" ")]
Booleans(resp) == [i \in DOMAIN resp |-> resp[i] = "Yes"]

\* a filter with no key in it, the pipelines made from it, and the lines
\* that wait on a connection
\* no readblock call runs.  Of a call that runs the model keeps, besides
\* the local variable lines, whether the rounds its loop made are odd
NotReading ==
    [pc |-> "idle", closed |-> FALSE, stream |-> <<>>, lines |-> <<>>, raised |-> "",
     odd |-> FALSE]

FilterStart(h, pipes, stream) ==
    /\ rb = NotReading
    /\ hash_keys = h
    /\ bits = {}
    /\ bufs = [p \in pipes |-> <<>>]
    /\ unread = stream
    /\ flast = NoFilterOp

\* a caller calls conn.readblock() on a connection with `unread` waiting
ReadBlock ==
    /\ \E b \in {ReadBlockOf(unread)} :
         /\ unread' = b.rest
         /\ flast' = [NoFilterOp EXCEPT !.op = "readblock", !.stream = unread,
                                        !.raised = b.err,
                                        !.lines = IF b.err = "" THEN b.lines ELSE <<>>]
    /\ UNCHANGED <<poolVars, connVars, routerVars, csock, hash_keys, bits, bufs, rb>>

\* readline() at the end of the file gives "", and read hands it on
EmptyLine == <<"">>

\* read() (lines 79-86) with `waiting` on the file: the next line; with
\* nothing waiting, the empty line when the peer closed the session, and
\* socket.timeout when the session is open and the peer silent
ReadOf(waiting, closed) ==
    IF waiting # <<>>
    THEN [line |-> Head(waiting), err |-> "", rest |-> Tail(waiting)]
    ELSE IF closed
    THEN [line |-> EmptyLine, err |-> "", rest |-> <<>>]
    ELSE [line |-> <<>>, err |-> "socket.timeout", rest |-> <<>>]

\* line 103: lines.append(line).  The list has no bound in the code; the
\* model keeps its first MaxLines lines
Kept(lines, line) == IF Len(lines) < MaxLines THEN Append(lines, line) ELSE lines

\* a caller calls conn.readblock() with `unread` waiting; after these lines
\* the peer is silent, or closes the session
ReadBlockEnter ==
    /\ rb.pc = "idle"
    /\ \E closed \in BOOLEAN :
         rb' = [NotReading EXCEPT !.pc = "first", !.closed = closed, !.stream = unread]
    /\ UNCHANGED <<poolVars, connVars, routerVars, csock, hash_keys, bits, bufs,
                   unread, flast>>

\* lines 95-98: the first line is read and compared with the start marker
ReadBlockFirst ==
    /\ rb.pc = "first"
    /\ \E r \in {ReadOf(unread, rb.closed)} :
         /\ unread' = r.rest
         /\ rb' = IF r.err # ""
                  THEN [rb EXCEPT !.pc = "done", !.raised = r.err]
                  ELSE IF r.line # StartMarker
                  THEN [rb EXCEPT !.pc = "done",
                                  !.raised = "BloomdError: Did not get block start"]
                  ELSE [rb EXCEPT !.pc = "loop"]
    /\ UNCHANGED <<poolVars, connVars, routerVars, csock, hash_keys, bits, bufs, flast>>

\* one round of the loop of lines 99-103: a line is read; the end marker
\* ends the loop (line 104 returns), any other line is appended
ReadBlockRound ==
    /\ rb.pc = "loop"
    /\ \E r \in {ReadOf(unread, rb.closed)} :
         /\ unread' = r.rest
         /\ rb' = IF r.err # ""
                  THEN [rb EXCEPT !.pc = "done", !.raised = r.err]
                  ELSE IF r.line = EndMarker
                  THEN [rb EXCEPT !.pc = "done"]
                  ELSE [rb EXCEPT !.lines = Kept(@, r.line), !.odd = ~@]
    /\ UNCHANGED <<poolVars, connVars, routerVars, csock, hash_keys, bits, bufs, flast>>

----------------------------------------------------------------------------
(* BloomdFilter.  Its pool is `pool`; the connection the pool hands out has
   `unread` waiting.  A call is one step.  The callers of the model call the
   filter and its pipelines while nothing waits on the connection (Clean):
   the lines a call leaves unread are kept in `unread`, and what later calls
   would read of them is not followed. *)

Clean == unread = <<>>

\* the command lines of add, __contains__, bulk, multi and info
FilterAddLine(h, key) == <<"s", FilterName>> \o GetKey(h, key)
FilterCheckLine(h, key) == <<"c", FilterName>> \o GetKey(h, key)
FilterBulkLine(h, keys) == <<"b", FilterName>> \o Join(h, keys)
FilterMultiLine(h, keys) == <<"m", FilterName>> \o Join(h, keys)
FilterInfoLine == <<"info", FilterName>>

\* lines 428-430 and 477-479; a BloomdError is raised, not returned
FilterBool(resp) ==
    IF resp \in {<<"Yes">>, <<"No">>} THEN Bool(resp = <<"Yes">>) ELSE Error(resp)

\* lines 439-441 and 487-489
FilterList(resp) ==
    IF StartsYesNo(resp) THEN List(Booleans(resp)) ELSE Error(resp)

FilterDecode(op, resp) ==
    IF op \in {"add", "check"} THEN FilterBool(resp) ELSE FilterList(resp)

\* send_and_receive(cmd) when the answers of the first `lost` rounds are
\* lost: the command reached the server, readline raised a transient
\* socket.error, lines 118-119 made a new socket (nothing waits on it) and
\* the next round sends the command again.  The server handles every copy;
\* handling a command twice leaves the filter as handling it once does.
\* With every round lost the call raises EnvironmentError.
SarOf(b, waiting, cmd, lost, quirk) ==
    IF lost >= DefaultAttempts
    THEN [bits |-> ServerBits(b, cmd), resp |-> <<>>, err |-> "EnvironmentError",
          rest |-> <<>>]
    ELSE IF lost > 0
    THEN [bits |-> BitsAfter(ServerBits(b, cmd), cmd, quirk),
          resp |-> Answer(ServerBits(b, cmd), cmd, quirk)[1], err |-> "",
          rest |-> <<>>]
    ELSE [bits |-> BitsAfter(b, cmd, quirk),
          resp |-> Head(waiting \o Answer(b, cmd, quirk)), err |-> "",
          rest |-> Tail(waiting \o Answer(b, cmd, quirk))]

\* the call with the connection a.conn taken, r what send_and_receive did
\* and d what the method makes of the response
FilterReturned(op, key, keys, cmd, lost, quirk, a, r, d) ==
    /\ pool' = ReleaseOf(a.pool, ospid, a.conn).pool
    /\ bits' = r.bits
    /\ unread' = r.rest
    /\ flast' = [NoFilterOp EXCEPT
                   !.op = op, !.key = key, !.keys = keys, !.cmd = cmd,
                   !.bits = bits, !.stream = unread, !.acquired = TRUE,
                   !.honest = (quirk = "none"), !.lost = lost,
                   !.sent = [i \in 1..Min({lost + 1, DefaultAttempts}) |-> cmd],
                   !.responses = IF r.err = "" THEN <<r.resp>> ELSE <<>>,
                   !.raised = IF r.err # "" THEN r.err
                              ELSE IF d.kind = "BloomdError" THEN "BloomdError"
                              ELSE "",
                   !.results = IF r.err = "" /\ d.kind # "BloomdError"
                               THEN <<d>> ELSE <<>>]

\* `with self.pool.get_connection() as conn: resp = conn.send_and_receive(..)`
\* and what follows it
FilterCall(op, key, keys, cmd, lost, quirk) ==
    \E a \in {GetConnectionOf(pool, ospid)} :
        IF a.err # ""
        THEN /\ flast' = [NoFilterOp EXCEPT !.op = op, !.key = key, !.keys = keys,
                                            !.cmd = cmd, !.raised = a.err]
             /\ UNCHANGED <<pool, bits, unread>>
        ELSE \E r \in {SarOf(bits, unread, cmd, lost, quirk)} :
                FilterReturned(op, key, keys, cmd, lost, quirk, a, r,
                               IF r.err = "" THEN FilterDecode(op, r.resp) ELSE None)

\* a caller calls filter.add(key)
FilterAdd ==
    /\ Clean
    /\ \E key \in Keys, lost \in 0..DefaultAttempts, quirk \in {"none"} \cup QuirksFor("s") :
         FilterCall("add", key, <<>>, FilterAddLine(hash_keys, key), lost, quirk)
    /\ UNCHANGED <<ospid, poolLast, connVars, routerVars, csock, hash_keys, bufs, rb>>

\* a caller calls filter.check(key), or evaluates `key in filter`
FilterCheck ==
    /\ Clean
    /\ \E key \in Keys, lost \in {0, 1}, quirk \in {"none"} \cup QuirksFor("c") :
         FilterCall("check", key, <<>>, FilterCheckLine(hash_keys, key), lost, quirk)
    /\ UNCHANGED <<ospid, poolLast, connVars, routerVars, csock, hash_keys, bufs, rb>>

\* a caller calls filter.bulk(keys)
FilterBulk ==
    /\ Clean
    /\ \E keys \in KeyLists, quirk \in {"none"} \cup QuirksFor("b") :
         FilterCall("bulk", <<>>, keys, FilterBulkLine(hash_keys, keys), 0, quirk)
    /\ UNCHANGED <<ospid, poolLast, connVars, routerVars, csock, hash_keys, bufs, rb>>

\* a caller calls filter.multi(keys)
FilterMulti ==
    /\ Clean
    /\ \E keys \in KeyLists, quirk \in {"none"} \cup QuirksFor("m") :
         FilterCall("multi", <<>>, keys, FilterMultiLine(hash_keys, keys), 0, quirk)
    /\ UNCHANGED <<ospid, poolLast, connVars, routerVars, csock, hash_keys, bufs, rb>>

\* info(): the command is sent on the connection taken; the next statement
\* reads `self.conn`, an attribute no BloomdFilter has, and raises
\* AttributeError; the block the server answers with stays unread on the
\* connection, which goes back to the pool
InfoOf(b, waiting, quirk) ==
    [raised |-> "AttributeError", results |-> <<>>,
     rest |-> waiting \o Answer(b, FilterInfoLine, quirk)]

FilterInfoCall(op, quirk) ==
    \E a \in {GetConnectionOf(pool, ospid)} :
        IF a.err # ""
        THEN /\ flast' = [NoFilterOp EXCEPT !.op = op, !.cmd = FilterInfoLine,
                                            !.raised = a.err]
             /\ UNCHANGED <<pool, unread>>
        ELSE \E r \in {InfoOf(bits, unread, quirk)} :
               /\ pool' = ReleaseOf(a.pool, ospid, a.conn).pool
               /\ unread' = r.rest
               /\ flast' = [NoFilterOp EXCEPT
                              !.op = op, !.cmd = FilterInfoLine, !.bits = bits,
                              !.stream = unread, !.acquired = TRUE,
                              !.honest = (quirk = "none"),
                              !.sent = <<FilterInfoLine>>,
                              !.responses = Answer(bits, FilterInfoLine, quirk),
                              !.raised = r.raised, !.results = r.results]

\* a caller calls filter.info()
FilterInfo ==
    /\ Clean
    /\ \E quirk \in {"none"} \cup QuirksFor("info") : FilterInfoCall("info", quirk)
    /\ UNCHANGED <<ospid, poolLast, connVars, routerVars, csock, hash_keys, bits, bufs, rb>>

\* a caller evaluates len(filter): __len__ calls self.info() and takes
\* int(info["size"]) of what it returns
FilterLen ==
    /\ Clean
    /\ \E quirk \in {"none"} \cup QuirksFor("info") : FilterInfoCall("__len__", quirk)
    /\ UNCHANGED <<ospid, poolLast, connVars, routerVars, csock, hash_keys, bits, bufs, rb>>

----------------------------------------------------------------------------
(* BloomdPipeline.  bufs[p] is the buffer of pipeline p: the (name, command)
   pairs in the order they were appended.  With each pair the model keeps
   the argument the method was called with (arg), which the code does not
   keep and no operation reads. *)

Command(name, cmd, arg) == [name |-> name, cmd |-> cmd, arg |-> arg]

PipelineAddCmdUnhashed(h, key) == Command("add", <<"s", FilterName>> \o key, key)

\* what add, check, bulk, multi, info and drop/close/clear/flush append
PipelineAddCmd(h, key) == Command("add", <<"s", FilterName>> \o GetKey(h, key), key)
PipelineCheckCmd(h, key) == Command("check", <<"c", FilterName>> \o GetKey(h, key), key)
PipelineBulkCmd(h, keys) == Command("bulk", <<"b", FilterName>> \o Join(h, keys), keys)
PipelineMultiCmd(h, keys) == Command("multi", <<"m", FilterName>> \o Join(h, keys), keys)
PipelineInfoCmd == Command("info", <<"info", FilterName>>, <<>>)
PipelineDoneCmd(name) == Command(name, <<name, FilterName>>, <<>>)

\* the methods whose answer is "Done"
DoneOps == {"drop", "close", "clear", "flush"}

\* self.buf.append(...); return self
Appended(p, c) ==
    /\ Len(bufs[p]) < MaxBuf
    /\ bufs' = [bufs EXCEPT ![p] = Append(@, c)]
    /\ flast' = [NoFilterOp EXCEPT !.op = "append", !.pipe = p, !.returned = p]
    /\ UNCHANGED <<poolVars, connVars, routerVars, csock, hash_keys, bits, unread, rb>>

PipelineAdd ==
    \E p \in DOMAIN bufs, key \in Keys : Appended(p, PipelineAddCmd(hash_keys, key))

PipelineCheck ==
    \E p \in DOMAIN bufs, key \in Keys : Appended(p, PipelineCheckCmd(hash_keys, key))

PipelineBulk ==
    \E p \in DOMAIN bufs, keys \in KeyLists : Appended(p, PipelineBulkCmd(hash_keys, keys))

PipelineMulti ==
    \E p \in DOMAIN bufs, keys \in KeyLists : Appended(p, PipelineMultiCmd(hash_keys, keys))

PipelineInfo ==
    \E p \in DOMAIN bufs : Appended(p, PipelineInfoCmd)

PipelineDone ==
    \E p \in DOMAIN bufs, name \in DoneOps : Appended(p, PipelineDoneCmd(name))

MergeOfPrepends(bp, bq) == bq \o bp

\* self.buf.extend(pipeline.buf)
MergeOf(bp, bq) == bp \o bq

\* a caller calls p.merge(q), p and q two pipelines
Merge ==
    /\ \E p \in DOMAIN bufs, q \in DOMAIN bufs :
         /\ p # q
         /\ Len(bufs[p]) + Len(bufs[q]) <= 2 * MaxBuf
         /\ bufs' = [bufs EXCEPT ![p] = MergeOf(bufs[p], bufs[q])]
         /\ flast' = [NoFilterOp EXCEPT !.op = "merge", !.pipe = p, !.other = q,
                                        !.returned = p, !.bufs = bufs]
    /\ UNCHANGED <<poolVars, connVars, routerVars, csock, hash_keys, bits, unread, rb>>

\* the filter when the server comes to the i-th command of the buffer
RECURSIVE BitsBefore(_, _, _, _)
BitsBefore(b, buf, quirks, i) ==
    IF i = 1 THEN b
    ELSE BitsAfter(BitsBefore(b, buf, quirks, i - 1), buf[i - 1].cmd, quirks[i - 1])

\* the answer of the server to the i-th command of the buffer
AnswerTo(b, buf, quirks, i) ==
    Answer(BitsBefore(b, buf, quirks, i), buf[i].cmd, quirks[i])

\* the lines of the answers to the first i commands, in order
RECURSIVE AnswersUpTo(_, _, _, _)
AnswersUpTo(b, buf, quirks, i) ==
    IF i = 0 THEN <<>>
    ELSE AnswersUpTo(b, buf, quirks, i - 1) \o AnswerTo(b, buf, quirks, i)

\* lines 614-635: the value appended for a command that is answered by one
\* line
PipelineDecode(name, resp) ==
    IF name \in {"bulk", "multi"}
    THEN IF StartsYesNo(resp) THEN List(Booleans(resp)) ELSE Error(resp)
    ELSE IF name \in {"add", "check"}
    THEN IF resp \in {<<"Yes">>, <<"No">>} THEN Bool(resp = <<"Yes">>) ELSE Error(resp)
    ELSE IF resp = <<"Done">> THEN True ELSE Error(resp)

\* lines 637-642 with d what response_block_to_dict did: its BloomdError is
\* caught and appended, any other exception leaves execute
InfoSlot(d, stream) ==
    IF d.err = ""
    THEN [raised |-> "", result |-> Dict(d.dict), rest |-> d.rest]
    ELSE IF d.err = "BloomdError: Did not get block start"
    THEN [raised |-> "", result |-> Error(Head(stream)), rest |-> d.rest]
    ELSE [raised |-> d.err, result |-> None, rest |-> d.rest]

\* one round of the loop of lines 612-644 (every name of a buffer is one the
\* loop knows): the value appended or the exception, and the lines left
Slot(name, stream) ==
    IF name = "info" THEN InfoSlot(ResponseBlockToDict(stream), stream)
    ELSE IF stream = <<>>
    THEN [raised |-> "socket.timeout", result |-> None, rest |-> <<>>]
    ELSE [raised |-> "", result |-> PipelineDecode(name, Head(stream)),
          rest |-> Tail(stream)]

\* the loop of lines 612-644 from the i-th command on
RECURSIVE ReadAll(_, _, _, _)
RECURSIVE ReadOn(_, _, _, _)
ReadOn(buf, i, s, results) ==
    IF s.raised # ""
    THEN [raised |-> s.raised, results |-> <<>>, rest |-> s.rest]
    ELSE ReadAll(buf, i + 1, s.rest, Append(results, s.result))

ReadAll(buf, i, stream, results) ==
    IF i > Len(buf)
    THEN [raised |-> "", results |-> results, rest |-> stream]
    ELSE ReadOn(buf, i, Slot(buf[i].name, stream), results)

\* the quirks of the server, one choice for each command
QuirkChoices(buf) ==
    {q \in [DOMAIN buf -> {"none", "error", "short", "junk"}] :
       \A i \in DOMAIN buf : q[i] \in {"none"} \cup QuirksFor(buf[i].cmd[1])}

\* lines 606-646 with the connection a.conn taken: the buffer is taken and
\* reset, every command sent, then the answers read; r is what the reading
\* loop did
Executed(p, a, quirks, r) ==
    /\ pool' = ReleaseOf(a.pool, ospid, a.conn).pool
    /\ bits' = BitsBefore(bits, bufs[p], quirks, Len(bufs[p]) + 1)
    /\ bufs' = [bufs EXCEPT ![p] = <<>>]
    /\ unread' = r.rest
    /\ flast' = [NoFilterOp EXCEPT
                   !.op = "execute", !.pipe = p, !.buf = bufs[p], !.bits = bits,
                   !.stream = unread, !.acquired = TRUE,
                   !.honest = \A i \in DOMAIN quirks : quirks[i] = "none",
                   !.sent = [i \in DOMAIN bufs[p] |-> bufs[p][i].cmd],
                   !.responses = [i \in DOMAIN bufs[p] |->
                                    AnswerTo(bits, bufs[p], quirks, i)],
                   !.raised = r.raised, !.results = r.results]

\* a caller calls p.execute(); get_connection comes first (line 605), and
\* when it raises nothing else of execute is run
Execute ==
    /\ Clean
    /\ \E p \in DOMAIN bufs :
         \E a \in {GetConnectionOf(pool, ospid)} :
            IF a.err # ""
            THEN /\ flast' = [NoFilterOp EXCEPT !.op = "execute", !.pipe = p,
                                                !.buf = bufs[p], !.raised = a.err]
                 /\ UNCHANGED <<pool, bits, bufs, unread>>
            ELSE \E quirks \in QuirkChoices(bufs[p]) :
                    Executed(p, a, quirks,
                             ReadAll(bufs[p], 1,
                                     unread \o AnswersUpTo(bits, bufs[p], quirks,
                                                           Len(bufs[p])),
                                     <<>>))
    /\ UNCHANGED <<ospid, poolLast, connVars, routerVars, csock, hash_keys, rb>>

----------------------------------------------------------------------------
(* The specifications *)

PoolInit ==
    /\ \E cfgMax \in 0..MaxCap : PoolStart(cfgMax)
    /\ ConnStart(DefaultAttempts)
    /\ RouterStart(<<1>>)
    /\ FilterStart(FALSE, {1}, <<>>)

PoolNext == GetConnection \/ Release

SpecPool == PoolInit /\ [][PoolNext]_vars

ConnInit ==
    /\ PoolStart(0)
    /\ \E attempts \in 0..DefaultAttempts : ConnStart(attempts)
    /\ RouterStart(<<1>>)
    /\ FilterStart(FALSE, {1}, <<>>)

ConnNext ==
    \/ Send
    \/ SendAndReceive
    \/ SendCreateSocket
    \/ SendAll
    \/ SendReconnect
    \/ ReadLine
    \/ SarReconnect
    \/ Disconnect

SpecConn == ConnInit /\ [][ConnNext]_vars

ClientInit ==
    /\ PoolStart(0)
    /\ ConnStart(DefaultAttempts)
    /\ \E servs \in ServerLists : RouterStart(servs)
    /\ FilterStart(FALSE, {1}, <<>>)

LookupNext ==
    \/ GetPool
    \/ GetItem
    \/ Tick
    \/ ServerCreate
    \/ ServerDrop

SpecLookup == ClientInit /\ [][LookupNext]_vars

ClientNext ==
    \/ CreateFilter
    \/ ListFilters
    \/ Flush
    \/ ServerCreate
    \/ ServerDrop

SpecClient == ClientInit /\ [][ClientNext]_vars

\* the calls of the client that take a connection from every server, with
\* the servers answering or not
FailingNext ==
    \/ ListFilters
    \/ Flush
    \/ ListFiltersRefused
    \/ FlushUnsent
    \/ ServerCreate

SpecFailing == ClientInit /\ [][FailingNext]_vars

ForkNext ==
    \/ GetConnection
    \/ Release
    \/ ConnUse
    \/ Fork
    \/ PoolDisconnect

SpecFork == PoolInit /\ [][ForkNext]_vars

BlockInit ==
    /\ PoolStart(0)
    /\ ConnStart(DefaultAttempts)
    /\ RouterStart(<<1>>)
    /\ \E stream \in Streams(MaxLines) : FilterStart(FALSE, {1}, stream)

BlockNext == ReadBlock

SpecBlock == BlockInit /\ [][BlockNext]_vars

\* readblock step by step; a call that can take a step takes it
ReadingNext ==
    \/ ReadBlockEnter
    \/ ReadBlockFirst
    \/ ReadBlockRound

SpecReading == BlockInit /\ [][ReadingNext]_vars /\ WF_vars(ReadingNext)

\* a pool of one connection, which another caller holds or does not hold
PoolOfOne(held) ==
    /\ ospid = 1
    /\ pool = IF held THEN GetConnectionOf(PoolNew(1, 1), 1).pool ELSE PoolNew(1, 1)
    /\ poolLast = [NoCall EXCEPT !.prev = PoolNew(1, 1)]
    /\ csock = {}

PipeInit ==
    /\ \E held \in BOOLEAN : PoolOfOne(held)
    /\ ConnStart(DefaultAttempts)
    /\ RouterStart(<<1>>)
    /\ FilterStart(FALSE, {1}, <<>>)

PipeNext ==
    \/ PipelineAdd
    \/ PipelineBulk
    \/ PipelineDone
    \/ PipelineInfo
    \/ Execute

SpecPipe == PipeInit /\ [][PipeNext]_vars

FilterInit ==
    /\ PoolStart(0)
    /\ ConnStart(DefaultAttempts)
    /\ RouterStart(<<1>>)
    /\ \E h \in BOOLEAN : FilterStart(h, {1}, <<>>)

FilterNext ==
    \/ FilterAdd
    \/ FilterCheck
    \/ FilterBulk
    \/ FilterMulti
    \/ FilterInfo
    \/ FilterLen
    \/ PipelineAdd
    \/ PipelineCheck
    \/ Execute

SpecFilter == FilterInit /\ [][FilterNext]_vars

MergeInit ==
    /\ PoolStart(0)
    /\ ConnStart(DefaultAttempts)
    /\ RouterStart(<<1>>)
    /\ FilterStart(FALSE, {1, 2}, <<>>)

MergeNext ==
    \/ PipelineAdd
    \/ PipelineMulti
    \/ PipelineInfo
    \/ Merge

SpecMerge == MergeInit /\ [][MergeNext]_vars

----------------------------------------------------------------------------
(* C1: get_connection returns an idle connection when the idle set is not
   empty, creates one only when the idle set is empty and fewer than
   max_connections were created, and otherwise fails leaving the pool as it
   was; so the connections created, and those in use, never exceed
   max_connections. *)
C1_PoolCap ==
    /\ pool.created_connections <= pool.max_connections
    /\ Cardinality(pool.in_use_connections) <= pool.max_connections
    /\ poolLast.op = "get_connection" =>
         LET q == poolLast.prev
             idle == Range(q.available_connections)
         IN  /\ idle # {} =>
                  /\ poolLast.err = ""
                  /\ poolLast.conn \in idle
                  /\ pool.created_connections = q.created_connections
             /\ (idle = {} /\ q.created_connections < q.max_connections) =>
                  /\ poolLast.err = ""
                  /\ poolLast.conn \notin q.in_use_connections
                  /\ pool.created_connections = q.created_connections + 1
             /\ (idle = {} /\ q.created_connections >= q.max_connections) =>
                  /\ poolLast.err # ""
                  /\ pool = q
             /\ poolLast.err = "" => poolLast.conn \in pool.in_use_connections

\* a pool of one connection refuses the second acquire
C1_Witness ==
    /\ poolLast.op = "get_connection"
    /\ poolLast.err # ""
    /\ pool.max_connections = 1
    /\ Cardinality(pool.in_use_connections) = 1
    /\ pool = poolLast.prev

----------------------------------------------------------------------------
(* C2: send makes at most `attempts` sendall calls; after a sendall that
   raised one of the five transient errnos the next thing it does is
   _create_socket, and when that succeeded and attempts are left, another
   sendall; when every sendall raised a transient errno the call ends by
   raising; a sendall that raised any other errno ends the call with that
   socket.error at once, with no reconnect and no further sendall. *)
C2_SendPolicy ==
    call.op = "send" =>
      /\ call.writes <= conn.attempts
      /\ (call.lastCall = "write" /\ call.lastErr \in TransientErrnos) =>
           call.pc = "send_reconnect"
      /\ (call.lastCall = "connect" /\ call.lastErr = "" /\ call.writes > 0) =>
           IF call.writes < conn.attempts
           THEN call.pc = "send_write"
           ELSE call.pc = "done" /\ call.res = "EnvironmentError"
      /\ (call.pc = "done" /\ call.twrites = conn.attempts) =>
           call.res \in {"EnvironmentError", "socket.error"}
      /\ (call.pc = "done" /\ call.res = "EnvironmentError") =>
           call.twrites = conn.attempts
      /\ (call.lastCall = "write" /\ call.lastErr \in Errnos \ TransientErrnos) =>
           /\ call.pc = "done"
           /\ call.res = "socket.error"
           /\ call.errno = call.lastErr
           /\ conn.sock = "failed"
      /\ (call.lastCall = "write" /\ call.lastErr = "") =>
           call.pc = "done" /\ call.res = "sent"

\* the default budget of three sendall calls used up, each followed by a reconnect
C2_Witness ==
    /\ call.op = "send"
    /\ conn.attempts = DefaultAttempts
    /\ call.pc = "done"
    /\ call.res = "EnvironmentError"
    /\ call.writes = DefaultAttempts
    /\ call.connects >= DefaultAttempts

(* C3: one send_and_receive call makes at most `attempts` sendall calls,
   whatever transient errors its writes and reads meet. *)
C3_SarWriteBudget ==
    call.op = "send_and_receive" => call.writes <= conn.attempts

(* C4: when send or send_and_receive ends with a socket.error of a transient
   errno, `attempts` attempts were made: `attempts` sendall calls by send,
   `attempts` rounds of its loop by send_and_receive. *)
C4_TransientOnlyAfterBudget ==
    (call.pc = "done" /\ call.res = "socket.error" /\ call.errno \in TransientErrnos) =>
        IF call.op = "send"
        THEN call.writes >= conn.attempts
        ELSE call.outer + 1 >= conn.attempts

----------------------------------------------------------------------------
(* Claims about the client *)

\* the configured servers whose `list` block holds the name
Owners(n) == {s \in Range(servers) : n \in filters[s]}

\* the filters server_info gives server s
Attributed(s) == Cardinality({n \in DOMAIN client.server_info : client.server_info[n] = s})

\* the last call was a lookup: _get_pool, or client[name]
Lookup == rlast.op \in {"_get_pool", "__getitem__"}

\* the last call returned a pool, or a filter on a pool
Returned == rlast.kind \in {"pool", "filter"}

\* no connection of any pool of the client is in use
AllReleased ==
    \A a \in DOMAIN client.sever_pools :
        client.sever_pools[a].in_use_connections = {}

(* C5: after a reload of server_info made by a lookup, every name is entered
   with a server whose `list` block held it, and the lookup of a filter that
   is on exactly one configured server returns the pool of that server. *)
C5_OwnerRecorded ==
    (Lookup /\ rlast.refreshes >= 1) =>
      /\ \A n \in DOMAIN client.server_info : client.server_info[n] \in Owners(n)
      /\ (Returned /\ Cardinality(Owners(rlast.filter)) = 1) =>
           rlast.server \in Owners(rlast.filter)

(* C6: a lookup that starts with server_info older than the staleness window
   makes exactly one list fan-out, whether or not the name is found. *)
C6_OneRefreshWhenStale ==
    (Lookup /\ rlast.aged) => rlast.refreshes = 1

(* C7: a strict lookup of a name that no configured server lists raises
   'Filter does not exist!', after a reload made by that lookup, in every
   state of server_info; it never returns a pool. *)
C7_StrictAlwaysRaises ==
    (Lookup /\ rlast.strict /\ Owners(rlast.filter) = {}) =>
      /\ rlast.kind = "BloomdError: Filter does not exist!"
      /\ rlast.refreshes >= 1

(* C7 as amended: a strict lookup of a name that no configured server lists
   raises 'Filter does not exist!' after a reload made by that lookup, unless
   server_info still holds the name and is not older than the staleness
   window: then it returns the pool of the server entered for the name,
   without a reload. *)
C7_StrictRaisesUnlessCached ==
    (Lookup /\ rlast.strict /\ Owners(rlast.filter) = {}) =>
      IF rlast.hadEntry /\ ~rlast.aged
      THEN /\ Returned
           /\ rlast.refreshes = 0
           /\ rlast.server = client.server_info[rlast.filter]
      ELSE /\ rlast.kind = "BloomdError: Filter does not exist!"
           /\ rlast.refreshes >= 1
           /\ rlast.filter \notin DOMAIN client.server_info

\* a name that was entered, then dropped from its server, is looked up after
\* the window: the reload no longer has it and the lookup raises
C7_Witness ==
    /\ Lookup
    /\ rlast.strict
    /\ Owners(rlast.filter) = {}
    /\ rlast.hadEntry
    /\ rlast.aged
    /\ rlast.kind = "BloomdError: Filter does not exist!"

(* C8: a lookup that is not strict and does not find the name returns the
   pool of the explicit server when one was given, and otherwise the pool of
   the configured server that server_info gives the fewest filters, the
   smallest address among equals. *)
C8_Placement ==
    (Lookup /\ ~rlast.strict /\ ~rlast.found) =>
      /\ rlast.kind = "pool"
      /\ rlast.server \in DOMAIN client.sever_pools
      /\ IF rlast.explicit # 0
         THEN rlast.server = rlast.explicit
         ELSE /\ rlast.server \in Range(servers)
              /\ \A t \in Range(servers) :
                   \/ Attributed(rlast.server) < Attributed(t)
                   \/ Attributed(rlast.server) = Attributed(t) /\ rlast.server <= t

\* the server with fewer filters is chosen though its address is the greater
C8_Witness ==
    /\ Lookup
    /\ ~rlast.strict
    /\ ~rlast.found
    /\ rlast.explicit = 0
    /\ \E t \in Range(servers) :
         t < rlast.server /\ Attributed(rlast.server) < Attributed(t)

\* equal counts: the smaller address is chosen though it is listed second
C8_WitnessTie ==
    /\ Lookup
    /\ ~rlast.strict
    /\ ~rlast.found
    /\ rlast.explicit = 0
    /\ Len(servers) = 2
    /\ rlast.server = servers[2]
    /\ Attributed(servers[1]) = Attributed(servers[2])

----------------------------------------------------------------------------
\* what create_filter makes of the answer of the server, when it asked one:
\* the command went to one connection of the pool the lookup of line 314
\* chose and the connection is back in its pool; "Done" gives a filter on
\* that pool; "Exists" gives what the strict lookup of the name gives, a
\* filter on the pool of the server entered for the name or the error of the
\* lookup when no server is entered for it; any other line raises
CreateMapsAnswer ==
    (rlast.op = "create_filter" /\ rlast.resp # "") =>
      /\ rlast.sentTo = <<rlast.placed>>
      /\ AllReleased
      /\ rlast.resp = "Done" =>
           rlast.kind = "filter" /\ rlast.server = rlast.placed
      /\ rlast.resp = "Exists" =>
           IF rlast.filter \in DOMAIN client.server_info
           THEN /\ rlast.kind = "filter"
                /\ rlast.server = client.server_info[rlast.filter]
           ELSE rlast.kind = "BloomdError: Filter does not exist!"
      /\ rlast.resp \notin {"Done", "Exists"} =>
           rlast.kind = "BloomdError: Got response"

\* the call ended at line 312: no lookup, no connection, no command
RejectedAtOnce ==
    /\ rlast.kind = "ValueError"
    /\ ~rlast.acquired
    /\ rlast.sentTo = <<>>
    /\ rlast.resp = ""

(* C9: create_filter returns a filter on the pool of the placement lookup
   for "Done", what the strict lookup of the name gives for "Exists", raises
   for any other line; and whenever a prob is passed and no capacity, it
   raises ValueError before a connection is taken or a command sent. *)
C9_ProbWithoutCapacityRejected ==
    /\ CreateMapsAnswer
    /\ (rlast.op = "create_filter" /\ rlast.prob # "None" /\ rlast.capacity = "None") =>
         RejectedAtOnce

(* C9 as amended: the same for the answers; and whenever the prob passed is
   not zero and the capacity is left out or zero, create_filter raises
   ValueError before a connection is taken or a command sent. *)
C9_TruthyProbWithoutCapacityRejected ==
    /\ CreateMapsAnswer
    /\ (rlast.op = "create_filter" /\ rlast.prob = "0.01"
          /\ rlast.capacity \in {"None", "0"}) => RejectedAtOnce
    /\ (rlast.op = "create_filter" /\ rlast.kind = "ValueError") =>
         (rlast.prob = "0.01" /\ rlast.capacity \in {"None", "0"})

\* the server chosen for the name answers "Exists", no configured server
\* lists the name, and the strict lookup raises
C9_Witness ==
    /\ rlast.op = "create_filter"
    /\ rlast.resp = "Exists"
    /\ rlast.kind = "BloomdError: Filter does not exist!"

\* "Exists", and a filter on the pool of the server entered for the name
C9_WitnessExists ==
    /\ rlast.op = "create_filter"
    /\ rlast.resp = "Exists"
    /\ rlast.kind = "filter"

\* a prob and no capacity: rejected
C9_WitnessRejected ==
    /\ rlast.op = "create_filter"
    /\ rlast.prob = "0.01"
    /\ rlast.capacity = "None"
    /\ RejectedAtOnce

----------------------------------------------------------------------------
\* the places of the servers whose answer to `flush` was not "Done"
Refused == {i \in DOMAIN rlast.responses : rlast.responses[i] # "Done"}

(* C10: when some server answers flush with a line that is not "Done", the
   answer of every server is read and every connection is back in its pool
   when flush raises, and the error is the one made for the first server, in
   the order of the list, whose answer was not "Done". *)
C10_FlushDrainsThenRaisesFirst ==
    (rlast.op = "flush" /\ Refused # {}) =>
      /\ rlast.read = servers
      /\ AllReleased
      /\ \A s \in Range(servers) :
           /\ s \in DOMAIN client.sever_pools
           /\ client.sever_pools[s].available_connections # <<>>
      /\ rlast.kind = "BloomdError: Got response"
      /\ \A i \in Refused : (\A j \in Refused : i <= j) =>
           /\ rlast.server = servers[i]
           /\ rlast.resp = rlast.responses[i]

\* both servers refuse: everything is read and released, the error is the
\* first server's
C10_Witness ==
    /\ rlast.op = "flush"
    /\ Len(servers) = 2
    /\ Refused = {1, 2}
    /\ rlast.read = servers
    /\ AllReleased
    /\ rlast.server = servers[1]

----------------------------------------------------------------------------
\* the first place of the end marker after the first line of the stream
\* (0: there is none)
FirstEnd(stream) ==
    IF \E i \in 2..Len(stream) : stream[i] = EndMarker
    THEN CHOOSE i \in 2..Len(stream) :
           stream[i] = EndMarker /\ \A j \in 2..(i - 1) : stream[j] # EndMarker
    ELSE 0

(* C16: readblock reads one line and, when it is not the start marker,
   raises BloomdError with exactly that line consumed; otherwise it returns
   the lines between the start marker and the first end marker after it, in
   order, with the end marker consumed and nothing after it. *)
C16_ReadBlock ==
    (flast.op = "readblock" /\ flast.stream # <<>>) =>
      IF flast.stream[1] # StartMarker
      THEN /\ flast.raised = "BloomdError: Did not get block start"
           /\ unread = Tail(flast.stream)
      ELSE FirstEnd(flast.stream) # 0 =>
             /\ flast.raised = ""
             /\ flast.lines = SubSeq(flast.stream, 2, FirstEnd(flast.stream) - 1)
             /\ unread = SubSeq(flast.stream, FirstEnd(flast.stream) + 1,
                                Len(flast.stream))

\* a block of one line is returned; the start marker that follows its end
\* marker stays on the connection
C16_Witness ==
    /\ flast.op = "readblock"
    /\ flast.stream = <<StartMarker, <<"size", "1">>, EndMarker, StartMarker>>
    /\ flast.lines = << <<"size", "1">> >>
    /\ unread = <<StartMarker>>

\* the first line is not the start marker: it is consumed, the rest waits
C16_WitnessNoStart ==
    /\ flast.op = "readblock"
    /\ flast.stream = << <<"junk">>, StartMarker, EndMarker >>
    /\ flast.raised = "BloomdError: Did not get block start"
    /\ unread = <<StartMarker, EndMarker>>

----------------------------------------------------------------------------
(* C17: after pool.disconnect() every connection the pool knows, idle or in
   use, has no socket; and so have the connections of the pool when
   get_connection or release finds the pool in another process than the one
   that built it. *)
C17_DisconnectClosesAll ==
    /\ poolLast.op = "disconnect" => Known(poolLast.prev) \cap csock = {}
    /\ (poolLast.op \in {"get_connection", "release"} /\ poolLast.prev.pid # ospid) =>
         Known(poolLast.prev) \cap csock = {}

----------------------------------------------------------------------------
(* C20: when send or send_and_receive ends with an error of the transport,
   a socket.error that is not transient or the EnvironmentError of the used
   up attempts, the connection holds no socket, so that its next use makes a
   new socket before it writes. *)
C20_DisconnectedAfterFailure ==
    (call.op \in {"send", "send_and_receive"} /\ call.pc = "done"
       /\ conn.attempts > 0
       /\ call.res \in {"socket.error", "EnvironmentError"}) =>
        conn.sock = "None"

----------------------------------------------------------------------------
(* Claims about the pipeline and the filter *)

\* the last call was an execute that got its connection
Ran == flast.op = "execute" /\ flast.acquired

\* a response of the form the command of that name expects
WellFormed(name, response) ==
    IF name \in {"add", "check"} THEN response \in {<< <<"Yes">> >>, << <<"No">> >>}
    ELSE IF name \in {"bulk", "multi"}
    THEN Len(response) = 1 /\ \A j \in DOMAIN response[1] : response[1][j] \in {"Yes", "No"}
    ELSE IF name \in DoneOps THEN response = << <<"Done">> >>
    ELSE /\ Len(response) >= 2
         /\ response[1] = StartMarker
         /\ response[Len(response)] = EndMarker
         /\ \A j \in 2..(Len(response) - 1) : Len(response[j]) >= 2

\* the kind of value each name gives for a response of the expected form
KindOf(name) ==
    IF name \in {"add", "check"} THEN "bool"
    ELSE IF name \in {"bulk", "multi"} THEN "list"
    ELSE IF name \in DoneOps THEN "True"
    ELSE "dict"

(* C11: an execute that got its connection returns one value for each
   buffered command, the i-th made of the i-th response: the value of the
   command's kind for a response of the expected form, an error value in
   the slot for any other response; it raises for none of them. *)
C11_ExecuteFillsEverySlot ==
    Ran =>
      /\ flast.raised = ""
      /\ Len(flast.results) = Len(flast.buf)
      /\ \A i \in DOMAIN flast.buf :
           IF WellFormed(flast.buf[i].name, flast.responses[i])
           THEN flast.results[i].kind = KindOf(flast.buf[i].name)
           ELSE flast.results[i].kind = "BloomdError"

(* C12: every execute leaves the buffer of its pipeline empty, whether it
   returns or raises, also when get_connection raised; the commands it sent
   are those of the buffer it found. *)
C12_ExecuteEmptiesBuffer ==
    flast.op = "execute" =>
      /\ bufs[flast.pipe] = <<>>
      /\ flast.acquired => flast.sent = [i \in DOMAIN flast.buf |-> flast.buf[i].cmd]

(* C13: pipeline().add(k1).check(k2).execute() on a server that answers in
   the expected form: the lines sent are those Filter.add(k1) and
   Filter.check(k2) send, the two values returned are those the two Filter
   calls return one after the other from the same filter, and the filter on
   the server ends as it ends after them. *)
C13_PipelineAsSequential ==
    (Ran /\ flast.honest /\ Len(flast.buf) = 2
       /\ flast.buf[1].name = "add" /\ flast.buf[2].name = "check") =>
      \E a \in {SarOf(flast.bits, <<>>, FilterAddLine(hash_keys, flast.buf[1].arg),
                      0, "none")} :
        \E c \in {SarOf(a.bits, <<>>, FilterCheckLine(hash_keys, flast.buf[2].arg),
                        0, "none")} :
          /\ flast.sent = <<FilterAddLine(hash_keys, flast.buf[1].arg),
                            FilterCheckLine(hash_keys, flast.buf[2].arg)>>
          /\ flast.raised = ""
          /\ flast.results = <<FilterBool(a.resp), FilterBool(c.resp)>>
          /\ bits = c.bits

\* hashed keys: k1 is added, k2 is not in the filter
C13_Witness ==
    /\ Ran
    /\ flast.honest
    /\ hash_keys
    /\ Len(flast.buf) = 2
    /\ flast.buf[1].name = "add"
    /\ flast.buf[2].name = "check"
    /\ flast.buf[1].arg # flast.buf[2].arg
    /\ flast.results = <<Bool(TRUE), Bool(FALSE)>>

(* C14: after p.merge(q) the buffer of p is its old buffer followed by the
   buffer of q, the buffer of q is as it was, no connection was taken and
   nothing sent, and p is returned. *)
C14_Merge ==
    flast.op = "merge" =>
      /\ bufs[flast.pipe] = flast.bufs[flast.pipe] \o flast.bufs[flast.other]
      /\ bufs[flast.other] = flast.bufs[flast.other]
      /\ flast.returned = flast.pipe
      /\ flast.sent = <<>>
      /\ ~flast.acquired
      /\ pool.created_connections = 0

\* two buffers that are not empty and differ
C14_Witness ==
    /\ flast.op = "merge"
    /\ flast.bufs[flast.pipe] # <<>>
    /\ flast.bufs[flast.other] # <<>>
    /\ flast.bufs[flast.pipe] # flast.bufs[flast.other]
    /\ Len(bufs[flast.pipe]) = Len(flast.bufs[flast.pipe]) + Len(flast.bufs[flast.other])

(* C15: info() on a server that answers with a block returns the mapping of
   the block's lines, and len(filter) the integer of its size entry. *)
C15_InfoReturnsMapping ==
    (flast.op \in {"info", "__len__"} /\ flast.acquired /\ flast.honest) =>
      /\ flast.raised = ""
      /\ Len(flast.results) = 1

(* C18: bulk and multi called with n keys, when they return, return n
   booleans. *)
C18_OneBooleanForEachKey ==
    (flast.op \in {"bulk", "multi"} /\ flast.raised = "" /\ flast.acquired) =>
      /\ flast.results[1].kind = "list"
      /\ Len(flast.results[1].val) = Len(flast.keys)

(* C19: an add that returns normally, also one whose send_and_receive made
   another round after a transient error, returns true when the key was not
   in the filter on the server when add was called, and false when it was. *)
C19_AddTrueOnFirstInsert ==
    (flast.op = "add" /\ flast.raised = "" /\ flast.acquired /\ flast.honest) =>
      flast.results = <<Bool(~Member(flast.bits, GetKey(hash_keys, flast.key)[1]))>>

(* C21: whenever the connection of the pool is idle, every line the server
   wrote in answer to a command sent on its session has been read, so the
   next caller that takes the connection reads the answer to its own
   command first. *)
C21_FramingSynchronised ==
    pool.available_connections # <<>> => unread = <<>>

(* C22: every call of the client leaves the in-use set of every pool as it
   found it, whether it returns or raises, and the connections it took are
   idle again. *)
C22_NoLeak ==
    [][\A a \in DOMAIN client'.sever_pools :
          /\ client'.sever_pools[a].in_use_connections
               = ServerPool(client.sever_pools, a).in_use_connections
          /\ Len(client'.sever_pools[a].available_connections)
               + Cardinality(client'.sever_pools[a].in_use_connections)
               = client'.sever_pools[a].created_connections]_vars

(* C23: a readblock call that has read the start marker ends: it returns
   or raises, also when the peer closes the session before a line equal to
   the end marker arrives. *)
C23_ReadBlockEnds ==
    (rb.pc = "loop") ~> (rb.pc = "done")

====
